---- MODULE Spec2Model ----
(***************************************************************************)
(* A model of the ledger graph analyser: the vertex loader                 *)
(* (src/database.rs, src/vertex.rs), the annotated graph with its          *)
(* reference inversion and breadth-first depth labelling                   *)
(* (src/graph/mod.rs) and the three averages.                              *)
(*                                                                         *)
(* Conventions.  Option<Id> is a sequence: <<>> is None, <<v>> is Some(v). *)
(* Rust indexes the vertex array from 0 and uses IDs from 1; TLA+          *)
(* sequences are indexed from 1, so graph[id] here is graph[id - 1] there. *)
(* A token of an input line is an integer; a negative integer stands for a *)
(* token that str::parse::<usize/u32> rejects (such as "-2").              *)
(* A float quotient a as f64 / b as f64 is kept as the pair <<a, b>>.      *)
(* usize is modelled with UsizeBits bits instead of 64.                    *)
(***************************************************************************)
EXTENDS Integers, Sequences, FiniteSets, TLC

\* ------------------------------------------------------------------ bounds
\* the most data rows of a generated input file
MaxRows == 2
\* the most vertices of a graph built directly (as the unit tests do)
MaxVertices == 2
\* the most inbound references, over all vertices, of a hand-built graph
MaxInbounds == 2
\* the most calls a direct caller makes on one graph
MaxCalls == 2
\* width of the modelled usize
UsizeBits == 16

\* usize::MAX
UsizeMax == (2 ^ UsizeBits) - 1

None == << >>
Some(v) == << v >>

\* ------------------------------------------------------------------ errors
Err(kind, id) == [kind |-> kind, id |-> id]
Ok == Err("Ok", 0)
EmptyGraph == Err("EmptyGraph", 0)
InvalidVertexId(id) == Err("InvalidVertexId", id)
RootIdUsedAsReference == Err("RootIdUsedAsReference", 0)

\* ------------------------------------------------------------------ vertex
Vertex(l, r, t) == [left |-> l, right |-> r, timestamp |-> t]

\* #[derive(Default)] for Vertex
Vertex_default == Vertex(None, None, 0)

\* Vertex::from_str(str, id): tokens is the line split at ASCII whitespace
Vertex_from_str(tokens, id) ==
    IF Len(tokens) > 3 THEN [err |-> Err("TooManyItems", 0), val |-> Vertex_default]
    ELSE IF Len(tokens) # 3 THEN [err |-> Err("TooFewItems", 0), val |-> Vertex_default]
    ELSE IF tokens[1] < 0 THEN [err |-> Err("ParseLeft", 0), val |-> Vertex_default]
    ELSE IF tokens[2] < 0 THEN [err |-> Err("ParseRight", 0), val |-> Vertex_default]
    ELSE IF tokens[3] < 0 THEN [err |-> Err("ParseTimestamp", 0), val |-> Vertex_default]
    ELSE [err |-> Ok,
          val |-> Vertex(IF tokens[1] = id THEN None ELSE Some(tokens[1]),
                         IF tokens[2] = id THEN None ELSE Some(tokens[2]),
                         tokens[3])]

\* ------------------------------------------------------------------ loader
\* get_number_of_nodes: the first line, parsed whole as usize
get_number_of_nodes(lines) ==
    IF Len(lines) = 0 THEN [err |-> Err("EndOfFile", 0), val |-> 0]
    ELSE IF Len(lines[1]) # 1 \/ lines[1][1] < 0 THEN [err |-> Err("ParseCount", 0), val |-> 0]
    ELSE [err |-> Ok, val |-> lines[1][1]]

\* a variant of convert_maybe_string_to_node: the row's place among the data
\* rows is taken for the vertex's ID
convert_with_row_place(line_number, tokens) ==
    Vertex_from_str(tokens, line_number)

\* convert_maybe_string_to_node((line_number, line)): line_number is the
\* 0-based index of the line in the file (the count line is line 0)
convert_maybe_string_to_node(line_number, tokens) ==
    Vertex_from_str(tokens, line_number + 1)

\* db_entries.map(convert_maybe_string_to_node).try_collect(): the vertices of
\* lines[from..], or the first error
RECURSIVE try_collect(_, _, _)
try_collect(lines, from, acc) ==
    IF from > Len(lines) THEN [err |-> Ok, val |-> acc]
    ELSE LET r == convert_maybe_string_to_node(from - 1, lines[from])
         IN  IF r.err # Ok THEN [err |-> r.err, val |-> << >>]
             ELSE try_collect(lines, from + 1, Append(acc, r.val))

\* a variant of load_vertices_from_database: a file that declares no vertices
\* gives no vertices, not even the synthetic root
load_nothing_for_zero(lines) ==
    LET n == get_number_of_nodes(lines)
    IN  IF n.err # Ok THEN [err |-> n.err, val |-> << >>]
        ELSE LET vs == try_collect(lines, 2, << >>)
             IN  IF vs.err # Ok THEN [err |-> vs.err, val |-> << >>]
                 ELSE IF Len(vs.val) # n.val
                      THEN [err |-> Err("CountMismatch", Len(vs.val)), val |-> << >>]
                      ELSE IF n.val = 0 THEN [err |-> Ok, val |-> << >>]
                      ELSE [err |-> Ok, val |-> << Vertex_default >> \o vs.val]

\* a variant of load_vertices_from_database: no synthetic root is put first
load_without_root(lines) ==
    LET n == get_number_of_nodes(lines)
    IN  IF n.err # Ok THEN [err |-> n.err, val |-> << >>]
        ELSE LET vs == try_collect(lines, 2, << >>)
             IN  IF vs.err # Ok THEN [err |-> vs.err, val |-> << >>]
                 ELSE IF Len(vs.val) # n.val
                      THEN [err |-> Err("CountMismatch", Len(vs.val)), val |-> << >>]
                      ELSE [err |-> Ok, val |-> vs.val]

\* load_vertices_from_database
load_vertices_from_database(lines) ==
    LET n == get_number_of_nodes(lines)
    IN  IF n.err # Ok THEN [err |-> n.err, val |-> << >>]
        ELSE LET vs == try_collect(lines, 2, << >>)
             IN  IF vs.err # Ok THEN [err |-> vs.err, val |-> << >>]
                 ELSE IF Len(vs.val) # n.val
                      THEN [err |-> Err("CountMismatch", Len(vs.val)), val |-> << >>]
                      ELSE [err |-> Ok, val |-> << Vertex_default >> \o vs.val]

\* ------------------------------------------------------------------ graph
VertexWithStats(v, vis, inb, d) ==
    [vertex |-> v, visited |-> vis, inbounds |-> inb, root_depth |-> d]

\* impl From<Vertex> for VertexWithStats
VertexWithStats_from(v) == VertexWithStats(v, FALSE, << >>, UsizeMax)

\* impl Default for VertexWithStats, with the inbounds a test literal gives
VertexWithStats_default(inb) == VertexWithStats(Vertex_default, FALSE, inb, UsizeMax)

\* Graph::new
Graph_new(vs) == [k \in 1..Len(vs) |-> VertexWithStats_from(vs[k])]

\* a variant of check_valid_id: the last ID is taken for out of range
check_valid_id_off_by_one(id, max_id) ==
    IF id >= max_id THEN InvalidVertexId(id)
    ELSE IF id = 0 THEN RootIdUsedAsReference
    ELSE Ok

\* a variant of check_valid_id: the two errors are exchanged
check_valid_id_swapped(id, max_id) ==
    IF id > max_id THEN RootIdUsedAsReference
    ELSE IF id = 0 THEN InvalidVertexId(id)
    ELSE Ok

check_valid_id(id, max_id) ==
    IF id > max_id THEN InvalidVertexId(id)
    ELSE IF id = 0 THEN RootIdUsedAsReference
    ELSE Ok

\* a variant of push_inbound: an ID already in the list is not pushed again
push_inbound_once(g, id, current_id) ==
    IF \E k \in 1..Len(g[id].inbounds) : g[id].inbounds[k] = current_id THEN g
    ELSE [g EXCEPT ![id].inbounds = Append(@, current_id)]

\* a variant of push_inbound: the list is indexed with id, not with id - 1
\* (past the last vertex it is the first one's)
push_inbound_at_id(g, id, current_id) ==
    [g EXCEPT ![(id % Len(g)) + 1].inbounds = Append(@, current_id)]

\* a variant of push_inbound: the ID goes to the front of the list
push_inbound_front(g, id, current_id) ==
    [g EXCEPT ![id].inbounds = << current_id >> \o @]

\* graph[id - 1].inbounds.push(current_id)
push_inbound(g, id, current_id) ==
    [g EXCEPT ![id].inbounds = Append(@, current_id)]

\* one `if let Some(ref id) = ...` block of find_inward_references
invert_slot(r, slot, current_id) ==
    IF r.err # Ok \/ slot = None THEN r
    ELSE LET id == slot[1]
             c  == check_valid_id(id, Len(r.g))
         IN  IF c # Ok THEN [g |-> r.g, err |-> c]
             ELSE [g |-> push_inbound(r.g, id, current_id), err |-> Ok]

\* a variant of invert_iteration: right is read before left
invert_iteration_right_first(g, i) ==
    LET current_id == i + 1
    IN  invert_slot(invert_slot([g |-> g, err |-> Ok], g[i + 1].vertex.right, current_id),
                    g[i + 1].vertex.left, current_id)

\* a variant of invert_iteration: the loop index i is pushed, not i + 1
invert_iteration_index_pushed(g, i) ==
    LET current_id == i
    IN  invert_slot(invert_slot([g |-> g, err |-> Ok], g[i + 1].vertex.left, current_id),
                    g[i + 1].vertex.right, current_id)

\* one iteration, for the 0-based index i, of the loop of find_inward_references
invert_iteration(g, i) ==
    LET current_id == i + 1
    IN  invert_slot(invert_slot([g |-> g, err |-> Ok], g[i + 1].vertex.left, current_id),
                    g[i + 1].vertex.right, current_id)

\* find_inward_references on a graph of at least one vertex, as one function:
\* the iterations from, from + 1, ... in turn, up to the first that fails
RECURSIVE invert_from(_, _)
invert_from(g, from) ==
    IF from >= Len(g) THEN [g |-> g, err |-> Ok]
    ELSE LET r == invert_iteration(g, from)
         IN  IF r.err # Ok THEN r ELSE invert_from(r.g, from + 1)

find_inward_references(g) ==
    IF Len(g) = 0 THEN [g |-> g, err |-> EmptyGraph] ELSE invert_from(g, 0)

\* --------------------------------------------------------------- averages
\* a float result: st is "none" (not computed), "ok" (num as f64 / den as f64)
\* or "panic"
Quot(num, den) == [st |-> "ok", num |-> num, den |-> den]
Panic == [st |-> "panic", num |-> 0, den |-> 0]
NoStat == [st |-> "none", num |-> 0, den |-> 0]

RECURSIVE inbound_len_sum(_, _)
inbound_len_sum(g, k) ==
    IF k = 0 THEN 0 ELSE inbound_len_sum(g, k - 1) + Len(g[k].inbounds)

calc_avg_inbound_ref_per_node(g) == Quot(inbound_len_sum(g, Len(g)), Len(g))

\* iter().map(|vertex| vertex.root_depth).sum::<usize>() over g[1..k]: the
\* addition panics on overflow when the build has overflow checks and wraps
\* otherwise
RECURSIVE root_depth_sum(_, _, _)
root_depth_sum(g, k, overflow_checks) ==
    IF k = 0 THEN [st |-> "ok", val |-> 0]
    ELSE LET acc == root_depth_sum(g, k - 1, overflow_checks)
         IN  IF acc.st # "ok" THEN acc
             ELSE IF acc.val + g[k].root_depth > UsizeMax
                  THEN IF overflow_checks THEN [st |-> "panic", val |-> 0]
                       ELSE [st |-> "ok", val |-> (acc.val + g[k].root_depth) % (2 ^ UsizeBits)]
                  ELSE [st |-> "ok", val |-> acc.val + g[k].root_depth]

calc_avg_root_depth_per_node(g, overflow_checks) ==
    LET s == root_depth_sum(g, Len(g), overflow_checks)
    IN  IF s.st # "ok" THEN Panic ELSE Quot(s.val, Len(g))

\* the loop `depths_cnt[vertex.root_depth] += 1` over g[1..k]; depths_cnt has
\* Len(g) slots, here for the depths 0..Len(g)-1; an index out of them panics
RECURSIVE count_depths(_, _)
count_depths(g, k) ==
    IF k = 0 THEN [st |-> "ok", cnt |-> [d \in 0..(Len(g) - 1) |-> 0]]
    ELSE LET acc == count_depths(g, k - 1)
         IN  IF acc.st # "ok" THEN acc
             ELSE IF g[k].root_depth >= Len(g) THEN [st |-> "panic", cnt |-> acc.cnt]
             ELSE [st |-> "ok", cnt |-> [acc.cnt EXCEPT ![g[k].root_depth] = @ + 1]]

\* the loop over depths_cnt.into_iter().skip(1).filter(|depth| *depth > 0),
\* for the depths 1..d
RECURSIVE fold_depths(_, _)
fold_depths(cnt, d) ==
    IF d <= 0 THEN [sum |-> 0, cnt |-> 0]
    ELSE LET acc == fold_depths(cnt, d - 1)
         IN  IF cnt[d] > 0 THEN [sum |-> acc.sum + cnt[d], cnt |-> acc.cnt + 1] ELSE acc

calc_avg_nodes_per_root_depth(g) ==
    LET c == count_depths(g, Len(g))
    IN  IF c.st # "ok" THEN Panic
        ELSE LET f == fold_depths(c.cnt, Len(g) - 1) IN Quot(f.sum, f.cnt)

\* ------------------------------------------------------------------ inputs
\* the timestamp of the generated rows and vertices
Timestamps == {7}

OptIds(n) == {None} \cup {Some(v) : v \in 0..(n + 1)}

\* vertex vectors of n vertices, as a caller of Graph::new may pass
VertexVectors(n) ==
    [1..n -> {Vertex(l, r, t) : l \in OptIds(n), r \in OptIds(n), t \in Timestamps}]

\* graphs written as literals of default vertices with inbounds, as the unit
\* tests of find_root_depth do: n vertices, k inbound references in all
RECURSIVE HandBuilt(_, _)
HandBuilt(n, k) ==
    IF k = 0 THEN {[v \in 1..n |-> VertexWithStats_default(<< >>)]}
    ELSE LET P == HandBuilt(n, k - 1)
         IN  P \cup {push_inbound(g, v, x) : g \in P, v \in 1..n, x \in 0..(n + 1)}

\* the graph of test_find_root_depth
TestFindRootDepthGraph ==
    << VertexWithStats_default(<< 2, 3 >>), VertexWithStats_default(<< >>),
       VertexWithStats_default(<< 4 >>), VertexWithStats_default(<< >>) >>

\* rows: three tokens with IDs around the valid range
RowIds == 0..(MaxRows + 2)
WellFormedRows == {<< l, r, t >> : l \in RowIds, r \in RowIds, t \in Timestamps}

\* rows that Vertex::from_str rejects, each tried at every place of a file
\* whose other rows are well formed
MalformedRows == {<< >>, << 0, 1 >>, << 0, 1, 1, 1 >>, << -1, 0, 0 >>, << 0, -1, 0 >>, << 0, 1, -2 >>}
MalformedSeqs(n) ==
    {[j \in 1..n |-> IF j = at THEN bad ELSE << 1, 1, 0 >>] : at \in 1..n, bad \in MalformedRows}

\* the input of the scenario of the specification: count 3 and three rows
ScenarioFile == << << 3 >>, << 0, 1, 2 >>, << 1, 0, 3 >>, << 2, 0, 1 >> >>

\* the declared count k of a file of n rows: n, one off it, or unparsable (-1)
HeaderFor(k, n) == IF k = -1 THEN n = 1 ELSE k - 1 <= n /\ n <= k + 1

\* ------------------------------------------------------------------- state
VARIABLES
    mode,       \* "main": the binary's pipeline; "test": a direct caller
    file,       \* main: the lines of the database file
    vertices,   \* the loaded vertices, the argument of Graph::new
    graph,      \* Graph.graph
    pc,         \* "load", "new", "ready", "invert", "label", "stats", "done"
    op,         \* the public function in progress, or "none"
    i,          \* find_inward_references: the loop index
    queue,      \* find_root_depth: the queue of <<path_len, vertex_id>>
    err,        \* the result of the last call that returned
    entry,      \* history: the graph when the call in progress started
    calls,      \* history: the calls that returned
    stats       \* the averages computed

vars == << mode, file, vertices, graph, pc, op, i, queue, err, entry, calls, stats >>

NoStats == [inbound_ref |-> NoStat, nodes_per_depth |-> NoStat, depth_per_node |-> NoStat]

InitMain ==
    /\ mode = "main"
    /\ \/ file \in {<< >>, ScenarioFile}
       \/ \E n \in 0..MaxRows, k \in (-1)..(MaxRows + 1) :
             /\ HeaderFor(k, n)
             /\ \/ \E rows \in [1..n -> WellFormedRows] : file = << << k >> >> \o rows
                \/ \E rows \in MalformedSeqs(n) : file = << << k >> >> \o rows
    /\ vertices = << >>
    /\ graph = << >>
    /\ pc = "load"

InitNew ==
    /\ mode = "test"
    /\ file = << >>
    /\ \E n \in 0..MaxVertices : vertices \in VertexVectors(n)
    /\ graph = << >>
    /\ pc = "new"

InitLiteral ==
    /\ mode = "test"
    /\ file = << >>
    /\ vertices = << >>
    /\ graph \in {TestFindRootDepthGraph}
                 \cup UNION {HandBuilt(n, MaxInbounds) : n \in 1..(MaxVertices + 1)}
    /\ pc = "ready"

\* no call was made yet
InitIdle ==
    /\ op = "none"
    /\ i = 0
    /\ queue = << >>
    /\ err = Err("none", 0)
    /\ entry = << >>
    /\ calls = << >>
    /\ stats = NoStats

Init == (InitMain \/ InitNew \/ InitLiteral) /\ InitIdle

\* ----------------------------------------------------------------- actions
\* the public function o, started on the graph e, returns res, which comes
\* from the function f, and leaves g; an error ends the run: main panics on it
\* (expect), a test asserts it
Finish(o, e, f, res, g) ==
    /\ graph' = g
    /\ err' = res
    /\ calls' = Append(calls, [op |-> o, fn |-> f, res |-> res, before |-> e, after |-> g])
    /\ op' = "none"
    /\ i' = 0
    /\ queue' = << >>
    /\ pc' = IF res # Ok THEN "done" ELSE IF mode = "main" THEN "stats" ELSE "ready"
    /\ UNCHANGED << mode, file, vertices, stats >>

\* find_inward_references, up to its loop: the empty check
StartFindInwardReferences(o, e) ==
    IF Len(graph) = 0
    THEN Finish(o, e, "find_inward_references", EmptyGraph, graph) /\ entry' = e
    ELSE /\ op' = o
         /\ entry' = e
         /\ pc' = "invert"
         /\ i' = 0
         /\ UNCHANGED << mode, file, vertices, graph, queue, err, calls, stats >>

\* a variant of StartFindRootDepth: the root is queued with path length 1
StartFindRootDepthAtOne(o, e) ==
    IF Len(graph) = 0
    THEN Finish(o, e, "find_root_depth", EmptyGraph, graph) /\ entry' = e
    ELSE /\ op' = o
         /\ entry' = e
         /\ pc' = "label"
         /\ queue' = << << 1, 1 >> >>
         /\ UNCHANGED << mode, file, vertices, graph, i, err, calls, stats >>

\* a variant of StartFindRootDepth: the empty check is missing
StartFindRootDepthUnchecked(o, e) ==
    /\ op' = o
    /\ entry' = e
    /\ pc' = "label"
    /\ queue' = << << 0, 1 >> >>
    /\ UNCHANGED << mode, file, vertices, graph, i, err, calls, stats >>

\* find_root_depth, up to its loop: the empty check and the seeding of the queue
StartFindRootDepth(o, e) ==
    IF Len(graph) = 0
    THEN Finish(o, e, "find_root_depth", EmptyGraph, graph) /\ entry' = e
    ELSE /\ op' = o
         /\ entry' = e
         /\ pc' = "label"
         /\ queue' = << << 0, 1 >> >>
         /\ UNCHANGED << mode, file, vertices, graph, i, err, calls, stats >>

\* main: database::load_vertices_from_database(...).expect(...)
LoadVertices ==
    /\ pc = "load"
    /\ LET r == load_vertices_from_database(file)
       IN  /\ err' = r.err
           /\ vertices' = r.val
           /\ pc' = IF r.err = Ok THEN "new" ELSE "done"
    /\ UNCHANGED << mode, file, graph, op, i, queue, entry, calls, stats >>

\* Graph::new(vertices)
GraphNew ==
    /\ pc = "new"
    /\ graph' = Graph_new(vertices)
    /\ pc' = "ready"
    /\ UNCHANGED << mode, file, vertices, op, i, queue, err, entry, calls, stats >>

\* main calls walk_and_analyze once; a direct caller makes up to MaxCalls calls
MayCall ==
    /\ pc = "ready"
    /\ Len(calls) < (IF mode = "main" THEN 1 ELSE MaxCalls)

\* Graph::walk_and_analyze, called on a graph no call was made on before: it
\* starts with find_inward_references
CallWalkAndAnalyze ==
    /\ MayCall
    /\ calls = << >>
    /\ StartFindInwardReferences("walk_and_analyze", graph)

\* a direct call of find_inward_references
CallFindInwardReferences ==
    /\ MayCall
    /\ mode = "test"
    /\ StartFindInwardReferences("find_inward_references", graph)

\* a direct call of find_root_depth
CallFindRootDepth ==
    /\ MayCall
    /\ mode = "test"
    /\ StartFindRootDepth("find_root_depth", graph)

\* a variant of InvertStep: on an error the graph is put back as it was when
\* the function started
InvertStepRestoring ==
    /\ pc = "invert"
    /\ i < Len(graph)
    /\ LET r == invert_iteration(graph, i)
       IN  IF r.err # Ok
           THEN Finish(op, entry, "find_inward_references", r.err, entry) /\ UNCHANGED entry
           ELSE /\ graph' = r.g
                /\ i' = i + 1
                /\ UNCHANGED << mode, file, vertices, pc, op, queue, err, entry, calls, stats >>

\* a variant of InvertStep: walk_and_analyze drops the error of
\* find_inward_references and goes on to find_root_depth
InvertStepErrorDropped ==
    /\ pc = "invert"
    /\ i < Len(graph)
    /\ LET r == invert_iteration(graph, i)
       IN  IF r.err # Ok /\ op = "walk_and_analyze"
           THEN /\ graph' = r.g
                /\ pc' = "label"
                /\ queue' = << << 0, 1 >> >>
                /\ UNCHANGED << mode, file, vertices, op, i, err, entry, calls, stats >>
           ELSE IF r.err # Ok
           THEN Finish(op, entry, "find_inward_references", r.err, r.g) /\ UNCHANGED entry
           ELSE /\ graph' = r.g
                /\ i' = i + 1
                /\ UNCHANGED << mode, file, vertices, pc, op, queue, err, entry, calls, stats >>

\* find_inward_references: one iteration of `for i in 0..graph.len()`
InvertStep ==
    /\ pc = "invert"
    /\ i < Len(graph)
    /\ LET r == invert_iteration(graph, i)
       IN  IF r.err # Ok
           THEN Finish(op, entry, "find_inward_references", r.err, r.g) /\ UNCHANGED entry
           ELSE /\ graph' = r.g
                /\ i' = i + 1
                /\ UNCHANGED << mode, file, vertices, pc, op, queue, err, entry, calls, stats >>

\* find_inward_references: the loop is over, Ok(()); under walk_and_analyze
\* find_root_depth follows
InvertReturn ==
    /\ pc = "invert"
    /\ i >= Len(graph)
    /\ IF op = "walk_and_analyze"
       THEN StartFindRootDepth(op, entry)
       ELSE Finish(op, entry, "find_inward_references", Ok, graph) /\ UNCHANGED entry

\* a variant of visit: the inbound references go to the front of the queue
visit_depth_first(g, rest, path_len, vertex_id) ==
    IF g[vertex_id].visited THEN [g |-> g, queue |-> rest]
    ELSE [g |-> [g EXCEPT ![vertex_id].visited = TRUE,
                          ![vertex_id].root_depth =
                              IF path_len < @ THEN path_len ELSE @],
          queue |-> [k \in 1..Len(g[vertex_id].inbounds) |->
                        << path_len + 1, g[vertex_id].inbounds[k] >>] \o rest]

\* a variant of visit: root_depth is assigned before the visited check
visit_relabel(g, rest, path_len, vertex_id) ==
    IF g[vertex_id].visited
    THEN [g |-> [g EXCEPT ![vertex_id].root_depth = path_len], queue |-> rest]
    ELSE [g |-> [g EXCEPT ![vertex_id].visited = TRUE,
                          ![vertex_id].root_depth = path_len],
          queue |-> rest \o [k \in 1..Len(g[vertex_id].inbounds) |->
                                << path_len + 1, g[vertex_id].inbounds[k] >>]]

\* a variant of visit: the entry of a visited vertex goes back to the queue
\* instead of being dropped
visit_requeue_visited(g, rest, path_len, vertex_id) ==
    IF g[vertex_id].visited
    THEN [g |-> g, queue |-> Append(rest, << path_len, vertex_id >>)]
    ELSE [g |-> [g EXCEPT ![vertex_id].visited = TRUE,
                          ![vertex_id].root_depth =
                              IF path_len < @ THEN path_len ELSE @],
          queue |-> rest \o [k \in 1..Len(g[vertex_id].inbounds) |->
                                << path_len + 1, g[vertex_id].inbounds[k] >>]]

\* the body of find_root_depth's loop for the dequeued (path_len, vertex_id):
\* the graph and the queue it leaves
visit(g, rest, path_len, vertex_id) ==
    IF g[vertex_id].visited THEN [g |-> g, queue |-> rest]
    ELSE [g |-> [g EXCEPT ![vertex_id].visited = TRUE,
                          ![vertex_id].root_depth =
                              IF path_len < @ THEN path_len ELSE @],
          queue |-> rest \o [k \in 1..Len(g[vertex_id].inbounds) |->
                                << path_len + 1, g[vertex_id].inbounds[k] >>]]

\* find_root_depth: one iteration of `while let Some(..) = queue.pop_front()`
LabelStep ==
    /\ pc = "label"
    /\ queue # << >>
    /\ LET path_len == Head(queue)[1]
           vertex_id == Head(queue)[2]
           c == check_valid_id(vertex_id, Len(graph))
       IN  IF c # Ok
           THEN Finish(op, entry, "find_root_depth", c, graph) /\ UNCHANGED entry
           ELSE LET r == visit(graph, Tail(queue), path_len, vertex_id)
                IN  /\ graph' = r.g
                    /\ queue' = r.queue
                    /\ UNCHANGED << mode, file, vertices, pc, op, i, err, entry, calls, stats >>

\* find_root_depth: the queue is empty, Ok(())
LabelReturn ==
    /\ pc = "label"
    /\ queue = << >>
    /\ Finish(op, entry, "find_root_depth", Ok, graph)
    /\ UNCHANGED entry

\* main: the three averages in the order main computes them; a panic ends it
main_stats(g, overflow_checks) ==
    LET a == calc_avg_inbound_ref_per_node(g)
        b == calc_avg_nodes_per_root_depth(g)
        c == calc_avg_root_depth_per_node(g, overflow_checks)
    IN  [inbound_ref |-> a,
         nodes_per_depth |-> b,
         depth_per_node |-> IF b.st = "panic" THEN NoStat ELSE c]

MainStats ==
    /\ pc = "stats"
    /\ \E overflow_checks \in BOOLEAN : stats' = main_stats(graph, overflow_checks)
    /\ pc' = "done"
    /\ UNCHANGED << mode, file, vertices, graph, op, i, queue, err, entry, calls >>

\* a direct caller reads the three averages through Graph's methods, each on
\* its own (the panic of one does not keep it from the others), and ends
test_stats(g, overflow_checks) ==
    [inbound_ref |-> calc_avg_inbound_ref_per_node(g),
     nodes_per_depth |-> calc_avg_nodes_per_root_depth(g),
     depth_per_node |-> calc_avg_root_depth_per_node(g, overflow_checks)]

CallAverages ==
    /\ pc = "ready"
    /\ mode = "test"
    /\ \E overflow_checks \in BOOLEAN : stats' = test_stats(graph, overflow_checks)
    /\ pc' = "done"
    /\ UNCHANGED << mode, file, vertices, graph, op, i, queue, err, entry, calls >>

Next ==
    \/ LoadVertices
    \/ GraphNew
    \/ CallWalkAndAnalyze
    \/ CallFindInwardReferences
    \/ CallFindRootDepth
    \/ InvertStep
    \/ InvertReturn
    \/ LabelStep
    \/ LabelReturn
    \/ MainStats
    \/ CallAverages

Spec == Init /\ [][Next]_vars

\* the two ways into find_root_depth's loop: the binary's pipeline, where it
\* follows the inversion of a loaded graph, and a caller's graph literal with
\* whatever inbound lists, cycles and self-references included
InitLive == (InitMain \/ InitLiteral) /\ InitIdle

\* find_root_depth is sequential code on one thread: once in its loop, the
\* next iteration, or the return after the last one, is taken
SpecLive == InitLive /\ [][Next]_vars /\ WF_vars(LabelStep \/ LabelReturn)

\* ------------------------------------------------- definitions for the claims
\* the vertices that the inbound list of some vertex of S names
Succ(g, S) ==
    {w \in 1..Len(g) : \E v \in S : \E k \in 1..Len(g[v].inbounds) : g[v].inbounds[k] = w}

\* the vertices at most d inbound edges away from vertex 1
RECURSIVE Within(_, _)
Within(g, d) ==
    IF d = 0 THEN {1} ELSE Within(g, d - 1) \cup Succ(g, Within(g, d - 1))

Reachable(g) == Within(g, Len(g))

\* the length of the shortest inbound-edge path from vertex 1 to v
Dist(g, v) == CHOOSE d \in 0..Len(g) : v \in Within(g, d) /\ (d = 0 \/ v \notin Within(g, d - 1))

\* the IDs in the left and right fields of g
DeclaredIds(g) ==
    {g[v].vertex.left[1] : v \in {u \in 1..Len(g) : g[u].vertex.left # None}}
    \cup {g[v].vertex.right[1] : v \in {u \in 1..Len(g) : g[u].vertex.right # None}}

\* the IDs in the inbound lists of the vertices of S
InboundIds(g, S) == UNION {{g[v].inbounds[k] : k \in 1..Len(g[v].inbounds)} : v \in S}

Fresh(g) == \A v \in 1..Len(g) : g[v] = VertexWithStats_from(g[v].vertex)

\* the run analysed a graph built by Graph::new: inversion, then labelling, and
\* both succeeded
Analysed ==
    /\ pc \in {"ready", "stats", "done"}
    /\ \/ /\ Len(calls) = 1
          /\ calls[1].op = "walk_and_analyze"
          /\ calls[1].res = Ok
       \/ /\ Len(calls) = 2
          /\ calls[1].op = "find_inward_references"
          /\ calls[2].op = "find_root_depth"
          /\ calls[1].res = Ok
          /\ calls[2].res = Ok
    /\ Fresh(calls[1].before)

\* C1: after inversion and then labelling succeeded on a graph from Graph::new
\* whose declared IDs are all in 1..N, every vertex reachable from vertex 1
\* along inbound edges is visited and its root_depth is its shortest distance.
C1_ShortestDepth ==
    (Analysed /\ DeclaredIds(calls[1].before) \subseteq 1..Len(graph)) =>
        \A v \in Reachable(graph) :
            graph[v].visited /\ graph[v].root_depth = Dist(graph, v)

\* a vertex with a path of length 1 and a longer one through another vertex
C1_Witness ==
    /\ Analysed
    /\ \E v \in 1..Len(graph), w \in 1..Len(graph) :
          /\ v # w
          /\ graph[v].root_depth = 1
          /\ graph[w].root_depth = 1
          /\ w \in InboundIds(graph, {v})
          /\ w \in InboundIds(graph, {1})

\* C2: whenever find_root_depth has run on a graph of at least one vertex, with
\* whatever inbound lists and whatever result, vertex 1 is visited with
\* root_depth 0.
C2_RootLabelled ==
    \A c \in 1..Len(calls) :
        (calls[c].fn = "find_root_depth" /\ Len(calls[c].before) >= 1) =>
            /\ calls[c].after[1].visited
            /\ calls[c].after[1].root_depth = 0

\* find_root_depth failed on an ID error, and the root names itself
C2_Witness ==
    \E c \in 1..Len(calls) :
        /\ calls[c].fn = "find_root_depth"
        /\ calls[c].res.kind = "InvalidVertexId"
        /\ 1 \in InboundIds(calls[c].before, {1})

\* the slots of g in the order find_inward_references reads them: the left
\* and the right of vertex 1, the left and the right of vertex 2, ...
SlotAt(g, j) == IF j % 2 = 1 THEN g[(j + 1) \div 2].vertex.left ELSE g[j \div 2].vertex.right
InvalidSlots(g) ==
    {j \in 1..(2 * Len(g)) : SlotAt(g, j) # None /\ SlotAt(g, j)[1] \notin 1..Len(g)}
FirstInvalidId(g) ==
    SlotAt(g, CHOOSE j \in InvalidSlots(g) : \A k \in InvalidSlots(g) : j <= k)[1]

\* C3 as stated: find_inward_references fails with InvalidVertexId whenever
\* any left or right exceeds N, with RootIdUsedAsReference whenever any is 0,
\* and succeeds only if all are in 1..N.
C3_Original ==
    \A c \in 1..Len(calls) :
        (calls[c].fn = "find_inward_references" /\ Len(calls[c].before) >= 1) =>
            LET ids == DeclaredIds(calls[c].before)
                n == Len(calls[c].before)
            IN  /\ (\E id \in ids : id > n) => calls[c].res.kind = "InvalidVertexId"
                /\ (0 \in ids) => calls[c].res = RootIdUsedAsReference
                /\ calls[c].res = Ok => ids \subseteq 1..n

\* C3, amended: find_inward_references succeeds exactly if every left and
\* right is in 1..N; otherwise it fails on the first invalid slot in reading
\* order, with InvalidVertexId(id) if that ID exceeds N and with
\* RootIdUsedAsReference if it is 0.
C3_FirstInvalidSlot ==
    \A c \in 1..Len(calls) :
        (calls[c].fn = "find_inward_references" /\ Len(calls[c].before) >= 1) =>
            LET g == calls[c].before
            IN  IF InvalidSlots(g) = {} THEN calls[c].res = Ok
                ELSE IF FirstInvalidId(g) = 0 THEN calls[c].res = RootIdUsedAsReference
                ELSE calls[c].res = InvalidVertexId(FirstInvalidId(g))

\* a graph with a 0 and, later, an ID beyond N: the 0 decides
C3_Witness ==
    \E c \in 1..Len(calls) :
        /\ calls[c].fn = "find_inward_references"
        /\ calls[c].res = RootIdUsedAsReference
        /\ \E id \in DeclaredIds(calls[c].before) : id > Len(calls[c].before)

\* a direct call of find_root_depth on a graph no vertex of which is visited
FirstLabelling(c) ==
    /\ calls[c].op = "find_root_depth"
    /\ Len(calls[c].before) >= 1
    /\ \A v \in 1..Len(calls[c].before) : ~calls[c].before[v].visited

\* C4 as stated: find_root_depth fails with InvalidVertexId when any inbound
\* reference of any vertex exceeds N and with RootIdUsedAsReference when any
\* is 0.
C4_Original ==
    \A c \in 1..Len(calls) :
        FirstLabelling(c) =>
            LET g == calls[c].before
                ids == InboundIds(g, 1..Len(g))
            IN  /\ (\E id \in ids : id > Len(g)) => calls[c].res.kind = "InvalidVertexId"
                /\ (0 \in ids) => calls[c].res = RootIdUsedAsReference

\* C4, amended: find_root_depth, on a graph with no vertex visited, fails
\* exactly if the inbound list of some vertex reachable from vertex 1 holds an
\* ID that is 0 or exceeds N; the error is InvalidVertexId(id) for such an id
\* beyond N or RootIdUsedAsReference for such a 0 (the one dequeued first);
\* an invalid ID in the list of an unreachable vertex is not detected.
C4_ReachableInvalid ==
    \A c \in 1..Len(calls) :
        FirstLabelling(c) =>
            LET g == calls[c].before
                bad == InboundIds(g, Reachable(g)) \ (1..Len(g))
            IN  /\ calls[c].res = Ok <=> bad = {}
                /\ calls[c].res.kind \in {"Ok", "InvalidVertexId", "RootIdUsedAsReference"}
                /\ calls[c].res.kind = "InvalidVertexId" =>
                       calls[c].res.id \in bad /\ calls[c].res.id > Len(g)
                /\ calls[c].res.kind = "RootIdUsedAsReference" => 0 \in bad

\* find_root_depth succeeded although an unreachable vertex holds an invalid ID
C4_Witness ==
    \E c \in 1..Len(calls) :
        /\ FirstLabelling(c)
        /\ calls[c].res = Ok
        /\ InboundIds(calls[c].before, 1..Len(calls[c].before))
               \ (1..Len(calls[c].before)) # {}

\* C5: on a graph of no vertices find_inward_references and find_root_depth
\* return EmptyGraph and do nothing else: neither loop is entered, the queue
\* is not seeded, the graph is as it was.
C5_EmptyGraph ==
    Len(graph) = 0 =>
        /\ pc \notin {"invert", "label"}
        /\ queue = << >>
        /\ \A c \in 1..Len(calls) :
              /\ calls[c].res = EmptyGraph
              /\ calls[c].before = << >>
              /\ calls[c].after = << >>

\* find_root_depth returned on the empty graph
C5_Witness ==
    /\ mode = "test"
    /\ pc = "done"
    /\ Len(graph) = 0
    /\ Len(calls) = 1
    /\ calls[1].op = "find_root_depth"

\* find_inward_references has run twice, both times with success, on a graph
\* that started with empty inbound lists
InvertedTwice ==
    /\ Len(calls) = 2
    /\ calls[1].op = "find_inward_references"
    /\ calls[2].op = "find_inward_references"
    /\ calls[1].res = Ok
    /\ calls[2].res = Ok
    /\ \A v \in 1..Len(calls[1].before) : calls[1].before[v].inbounds = << >>

\* C6: a second find_inward_references doubles the length of every inbound
\* list the first one left.
C6_Doubles ==
    InvertedTwice =>
        \A v \in 1..Len(graph) :
            Len(calls[2].after[v].inbounds) = 2 * Len(calls[1].after[v].inbounds)

\* inverted twice, and some vertex has inbound references
C6_Witness ==
    /\ InvertedTwice
    /\ \E v \in 1..Len(graph) : Len(calls[1].after[v].inbounds) >= 2

\* the scenario's input has been run to its end
ScenarioDone == file = ScenarioFile /\ pc = "done"

\* the quotient q is the fraction a / b
IsFraction(q, a, b) == q.st = "ok" /\ q.den # 0 /\ q.num * b = a * q.den

\* C7 as stated: the scenario's input loads, inversion and labelling succeed,
\* and the averages are 5/3 (inbound references per vertex), 5/2 (vertices per
\* depth level) and 4/3 (root depth per vertex).
C7_Original ==
    ScenarioDone =>
        /\ err = Ok
        /\ IsFraction(stats.inbound_ref, 5, 3)
        /\ IsFraction(stats.nodes_per_depth, 5, 2)
        /\ IsFraction(stats.depth_per_node, 4, 3)

\* C7, amended: the scenario's input loads as the synthetic root and the
\* vertices (Some(0), Some(1), 2), (Some(1), Some(0), 3), (Some(2), Some(0), 1);
\* walk_and_analyze then fails in find_inward_references with
\* RootIdUsedAsReference on the first row's left ID 0, before any inbound
\* reference is recorded, and no average is computed.
C7_ScenarioFails ==
    ScenarioDone =>
        /\ vertices = << Vertex_default, Vertex(Some(0), Some(1), 2),
                         Vertex(Some(1), Some(0), 3), Vertex(Some(2), Some(0), 1) >>
        /\ graph = Graph_new(vertices)
        /\ Len(calls) = 1
        /\ calls[1].op = "walk_and_analyze"
        /\ calls[1].fn = "find_inward_references"
        /\ calls[1].res = RootIdUsedAsReference
        /\ err = RootIdUsedAsReference
        /\ stats = NoStats

\* the scenario's input was loaded and analysed, and the run is over
C7_Witness == ScenarioDone /\ Len(vertices) = 4 /\ Len(calls) = 1

\* main loaded the file: every data row became a vertex after the root
Loaded == mode = "main" /\ pc # "load" /\ Len(vertices) >= 1

\* C8 as stated: the row at the 1-based place p among the data rows gets
\* left = None exactly if its left_id is p, and else Some(left_id); the same,
\* independently, for right.
C8_Original ==
    Loaded =>
        \A p \in 1..(Len(file) - 1) :
            /\ vertices[p + 1].left = IF file[p + 1][1] = p THEN None ELSE Some(file[p + 1][1])
            /\ vertices[p + 1].right = IF file[p + 1][2] = p THEN None ELSE Some(file[p + 1][2])

\* C8, amended: the row at the 1-based place p among the data rows gets
\* left = None exactly if its left_id is p + 1 (the ID of its vertex in the
\* graph, where the synthetic root has ID 1), and else Some(left_id); the
\* same, independently, for right.
C8_SelfReference ==
    Loaded =>
        /\ Len(vertices) = Len(file)
        /\ \A p \in 1..(Len(file) - 1) :
              /\ vertices[p + 1].left =
                     IF file[p + 1][1] = p + 1 THEN None ELSE Some(file[p + 1][1])
              /\ vertices[p + 1].right =
                     IF file[p + 1][2] = p + 1 THEN None ELSE Some(file[p + 1][2])
              /\ vertices[p + 1].timestamp = file[p + 1][3]

\* a loaded row whose left_id is its vertex's ID and whose right_id is its place
C8_Witness ==
    /\ Loaded
    /\ \E p \in 1..(Len(file) - 1) :
          /\ file[p + 1][1] = p + 1
          /\ file[p + 1][2] = p
          /\ vertices[p + 1].left = None
          /\ vertices[p + 1].right = Some(p)

\* the depths, from 1 on, of the vertices reachable from vertex 1
ReachableBelowRoot(g) == {v \in Reachable(g) : g[v].root_depth >= 1}
LevelsBelowRoot(g) == {g[v].root_depth : v \in ReachableBelowRoot(g)}

\* C9: after a successful analysis every vertex unreachable from vertex 1 has
\* the sentinel root_depth and visited = false, and
\* calc_avg_nodes_per_root_depth leaves them out: it returns (reachable
\* vertices of depth >= 1) / (distinct depths >= 1 among them) and does not fail.
C9_UnreachableExcluded ==
    (Analysed /\ pc = "done" /\ stats.nodes_per_depth.st # "none") =>
        /\ \A v \in (1..Len(graph)) \ Reachable(graph) :
              graph[v].root_depth = UsizeMax /\ ~graph[v].visited
        /\ stats.nodes_per_depth =
               Quot(Cardinality(ReachableBelowRoot(graph)), Cardinality(LevelsBelowRoot(graph)))

\* the sum of the root depths of g[1..k], in the integers
RECURSIVE TrueDepthSum(_, _)
TrueDepthSum(g, k) == IF k = 0 THEN 0 ELSE TrueDepthSum(g, k - 1) + g[k].root_depth

\* find_root_depth was the last function to run, and it succeeded
Labelled ==
    /\ Len(calls) >= 1
    /\ calls[Len(calls)].fn = "find_root_depth"
    /\ calls[Len(calls)].res = Ok

\* C10: on a labelled graph calc_avg_root_depth_per_node returns (sum of all
\* root_depth) / (vertex count), each vertex the search never reached adding
\* usize::MAX to the sum, for any number of unreached vertices.
C10_SentinelSum ==
    (Labelled /\ stats.depth_per_node.st # "none") =>
        stats.depth_per_node = Quot(TrueDepthSum(graph, Len(graph)), Len(graph))

\* C11: find_root_depth terminates on every finite graph, cycles and
\* self-loops among the inbound lists included: once its loop is entered, it
\* is left (the queue empties, or an ID error is returned).
C11_Terminates == (pc = "label") ~> (pc # "label")

\* find_root_depth returned Ok on a graph where a vertex reachable from vertex 1
\* is on a cycle of inbound references: it names itself, or it and another
\* vertex name each other
C11_Witness ==
    \E c \in 1..Len(calls) :
        /\ calls[c].fn = "find_root_depth"
        /\ calls[c].res = Ok
        /\ \E v \in Reachable(calls[c].before) :
              \/ v \in InboundIds(calls[c].before, {v})
              \/ \E w \in InboundIds(calls[c].before, {v}) \cap (1..Len(calls[c].before)) :
                    w # v /\ v \in InboundIds(calls[c].before, {w})

\* the vertices of g and h have the same visited flags and root depths
SameLabels(g, h) ==
    /\ Len(g) = Len(h)
    /\ \A v \in 1..Len(g) :
          g[v].visited = h[v].visited /\ g[v].root_depth = h[v].root_depth

\* C12: walk_and_analyze fails fast. If find_inward_references fails on the
\* graph walk_and_analyze was called on, walk_and_analyze returns exactly that
\* error out of find_inward_references, find_root_depth is not started, and no
\* visited flag or root_depth has changed; find_root_depth's loop runs under
\* walk_and_analyze only on the graph a successful inversion left.
C12_FailFast ==
    /\ \A c \in 1..Len(calls) :
          calls[c].op = "walk_and_analyze" =>
              LET r == find_inward_references(calls[c].before)
              IN  IF r.err # Ok
                  THEN /\ calls[c].fn = "find_inward_references"
                       /\ calls[c].res = r.err
                       /\ calls[c].after = r.g
                       /\ SameLabels(calls[c].before, calls[c].after)
                  ELSE calls[c].fn = "find_root_depth"
    /\ (op = "walk_and_analyze" /\ pc = "label") =>
          LET r == find_inward_references(entry)
          IN  /\ r.err = Ok
              /\ \A v \in 1..Len(graph) : graph[v].inbounds = r.g[v].inbounds
    /\ (op = "walk_and_analyze" /\ pc = "invert") => (queue = << >> /\ SameLabels(entry, graph))

\* walk_and_analyze failed in find_inward_references on an invalid ID, after
\* the inversion had recorded an inbound reference
C12_Witness ==
    \E c \in 1..Len(calls) :
        /\ calls[c].op = "walk_and_analyze"
        /\ calls[c].fn = "find_inward_references"
        /\ calls[c].res.kind \in {"InvalidVertexId", "RootIdUsedAsReference"}
        /\ calls[c].after # calls[c].before

\* the slots of g, in reading order, that hold the ID v; the slots that hold
\* an ID at all
SlotsNaming(g, v) ==
    LET Names(j) == SlotAt(g, j) = Some(v)
    IN  SelectSeq([j \in 1..(2 * Len(g)) |-> j], Names)
PresentSlots(g) == {j \in 1..(2 * Len(g)) : SlotAt(g, j) # None}

\* the positions of the vertices that name v, ascending, once for each of
\* their slots that does
Referrers(g, v) ==
    LET slots == SlotsNaming(g, v)
    IN  [k \in 1..Len(slots) |-> (slots[k] + 1) \div 2]

RECURSIVE InboundTotal(_, _)
InboundTotal(g, k) == IF k = 0 THEN 0 ELSE InboundTotal(g, k - 1) + Len(g[k].inbounds)

\* call c ran find_inward_references to success on a graph whose inbound
\* lists were all empty
InvertedFromEmpty(c) ==
    /\ calls[c].op \in {"find_inward_references", "walk_and_analyze"}
    /\ \A v \in 1..Len(calls[c].before) : calls[c].before[v].inbounds = << >>
    /\ IF calls[c].op = "walk_and_analyze"
       THEN calls[c].fn = "find_root_depth"
       ELSE calls[c].res = Ok

\* C13: after find_inward_references succeeded on a graph whose inbound lists
\* were empty, the inbound list of each vertex v is the ascending sequence of
\* the positions of the vertices whose left or right is v, a position twice
\* when both are; the lists together are as long as the number of slots that
\* are not None.
C13_InboundLists ==
    \A c \in 1..Len(calls) :
        InvertedFromEmpty(c) =>
            /\ \A v \in 1..Len(calls[c].before) :
                  calls[c].after[v].inbounds = Referrers(calls[c].before, v)
            /\ InboundTotal(calls[c].after, Len(calls[c].after))
                   = Cardinality(PresentSlots(calls[c].before))

\* a vertex named by both slots of one vertex and by a vertex after that one
C13_Witness ==
    \E c \in 1..Len(calls) :
        /\ InvertedFromEmpty(c)
        /\ \E v \in 1..Len(calls[c].after) :
              LET inb == calls[c].after[v].inbounds
              IN  Len(inb) >= 3 /\ inb[1] = inb[2] /\ inb[2] < inb[3]

\* from g to h only the inbound lists of vertices that a left or right of g
\* names may have changed
OnlyNamedInbounds(g, h) ==
    /\ Len(h) = Len(g)
    /\ \A v \in 1..Len(g) :
          /\ h[v].vertex = g[v].vertex
          /\ h[v].visited = g[v].visited
          /\ h[v].root_depth = g[v].root_depth
          /\ v \notin DeclaredIds(g) => h[v].inbounds = g[v].inbounds

\* C14: find_inward_references changes nothing but inbound lists. Each of its
\* steps, and each of its calls from start to return, whatever the result,
\* leaves left, right, timestamp, visited and root_depth of every vertex as
\* they were, and leaves the inbound list of a vertex that no left or right
\* names as it was.
C14_OnlyInbounds ==
    [][/\ pc = "invert" => OnlyNamedInbounds(graph, graph')
       /\ \A c \in 1..Len(calls') :
             calls'[c].op = "find_inward_references" =>
                 OnlyNamedInbounds(calls'[c].before, calls'[c].after)]_vars

\* find_inward_references returned, with or without an error, on a graph that
\* find_root_depth had labelled: it extended an inbound list, and a vertex
\* that no left or right names is there
C14_Witness ==
    \E c \in 1..Len(calls) :
        /\ calls[c].op = "find_inward_references"
        /\ Len(calls[c].before) >= 1
        /\ calls[c].before[1].visited
        /\ calls[c].before[1].root_depth = 0
        /\ calls[c].after # calls[c].before
        /\ (1..Len(calls[c].before)) \ DeclaredIds(calls[c].before) # {}

\* no vertex of g is visited, and each has the root_depth Graph::new gives
NewLabels(g) == \A v \in 1..Len(g) : ~g[v].visited /\ g[v].root_depth = UsizeMax

\* find_root_depth is about to dequeue a valid ID
Dequeuing ==
    /\ pc = "label"
    /\ queue # << >>
    /\ Head(queue)[2] \in 1..Len(graph)

\* C15: in find_root_depth, started on a graph with the labels of Graph::new,
\* a step that dequeues (path_len, id) with id not visited makes id visited
\* with root_depth = path_len and touches no other vertex; a step that
\* dequeues a visited id changes nothing in the graph and adds nothing to the
\* queue; and no step of the run makes a visited vertex unvisited or changes
\* its root_depth.
C15_VisitedOnce ==
    [][(NewLabels(entry) /\ Dequeuing) =>
          LET path_len == Head(queue)[1]
              id == Head(queue)[2]
          IN  /\ Len(graph') = Len(graph)
              /\ \A v \in 1..Len(graph) : v # id => graph'[v] = graph[v]
              /\ IF graph[id].visited
                 THEN graph'[id] = graph[id] /\ queue' = Tail(queue)
                 ELSE /\ graph'[id].visited
                      /\ graph'[id].root_depth = path_len
                      /\ graph'[id].inbounds = graph[id].inbounds
                      /\ graph'[id].vertex = graph[id].vertex]_vars

\* a graph from Graph::new was inverted and labelled, and vertex 1 is in the
\* inbound list of another vertex the search reached: vertex 1 was dequeued
\* again, with a path length above its root_depth 0
C15_Witness ==
    /\ Analysed
    /\ \E v \in Reachable(graph) \ {1} :
          /\ 1 \in InboundIds(graph, {v})
          /\ graph[v].visited
          /\ graph[1].root_depth = 0

\* every visited vertex of g has a root_depth that indexes the Len(g) slots
\* depths_cnt has in calc_avg_nodes_per_root_depth
VisitedDepthsInRange(g) ==
    \A v \in 1..Len(g) : g[v].visited => g[v].root_depth <= Len(g) - 1

\* C16: at every state of find_root_depth, started on a graph of N vertices
\* with the labels of Graph::new, and in the graph it returns, every visited
\* vertex has root_depth <= N - 1.
C16_DepthBelowN ==
    /\ (pc = "label" /\ NewLabels(entry)) => VisitedDepthsInRange(graph)
    /\ \A c \in 1..Len(calls) :
          (calls[c].fn = "find_root_depth" /\ NewLabels(calls[c].before)) =>
              VisitedDepthsInRange(calls[c].after)

\* in find_root_depth on three or more vertices, a vertex was just given the
\* depth N - 1
C16_Witness ==
    /\ pc = "label"
    /\ NewLabels(entry)
    /\ Len(graph) >= 3
    /\ \E v \in 1..Len(graph) : graph[v].visited /\ graph[v].root_depth = Len(graph) - 1

\* the graph the run started with: every inbound list of the run's graph comes
\* from it or from find_inward_references
Origin == IF calls = << >> THEN (IF op = "none" THEN graph ELSE entry) ELSE calls[1].before

\* the IDs waiting in find_root_depth's queue
QueuedIds == {queue[k][2] : k \in 1..Len(queue)}

\* C17: on a graph built by Graph::new, whose inbound lists only
\* find_inward_references has filled, find_root_depth never fails: every ID in
\* its queue and in every inbound list is in 1..N, and it returns Ok; a
\* find_root_depth that returns InvalidVertexId or RootIdUsedAsReference ran on
\* inbound lists that did not come from the inversion.
C17_NoFailureAfterInversion ==
    Fresh(Origin) =>
        /\ pc = "label" =>
              /\ QueuedIds \subseteq 1..Len(graph)
              /\ InboundIds(graph, 1..Len(graph)) \subseteq 1..Len(graph)
        /\ \A c \in 1..Len(calls) :
              /\ InboundIds(calls[c].after, 1..Len(calls[c].after)) \subseteq 1..Len(graph)
              /\ (calls[c].fn = "find_root_depth" /\ Len(calls[c].before) >= 1) =>
                     calls[c].res = Ok

\* find_root_depth, called after a successful find_inward_references on a
\* graph from Graph::new, has two IDs in its queue
C17_Witness ==
    /\ Fresh(Origin)
    /\ pc = "label"
    /\ op = "find_root_depth"
    /\ Len(calls) = 1
    /\ calls[1].op = "find_inward_references"
    /\ calls[1].res = Ok
    /\ Len(queue) >= 2

\* the first slot of g, in reading order, that holds an invalid ID
FirstInvalidSlot(g) == CHOOSE j \in InvalidSlots(g) : \A k \in InvalidSlots(g) : j <= k

\* the positions of the vertices that name v in a slot before slot j
ReferrersBefore(g, v, j) ==
    LET Names(k) == k < j /\ SlotAt(g, k) = Some(v)
        slots == SelectSeq([k \in 1..(2 * Len(g)) |-> k], Names)
    IN  [k \in 1..Len(slots) |-> (slots[k] + 1) \div 2]

\* call c is a find_inward_references that failed on an invalid ID
InversionFailedOnId(c) ==
    /\ calls[c].fn = "find_inward_references"
    /\ calls[c].res.kind \in {"InvalidVertexId", "RootIdUsedAsReference"}

\* C18: find_inward_references is not atomic. When it fails on the invalid ID
\* of a slot, the graph it leaves has, appended to the inbound lists it found,
\* exactly the references of the slots read before that slot (the earlier
\* vertices' slots, and the left slot of the same vertex if the right one is
\* the invalid one), and none of any later slot: nothing is rolled back.
C18_PartialInversion ==
    \A c \in 1..Len(calls) :
        InversionFailedOnId(c) =>
            LET g == calls[c].before
            IN  /\ InvalidSlots(g) # {}
                /\ Len(calls[c].after) = Len(g)
                /\ \A v \in 1..Len(g) :
                      calls[c].after[v].inbounds =
                          g[v].inbounds \o ReferrersBefore(g, v, FirstInvalidSlot(g))

\* find_inward_references failed on a right slot after it had recorded the
\* left slot of the same vertex, and a later slot holds a valid ID
C18_Witness ==
    \E c \in 1..Len(calls) :
        /\ InversionFailedOnId(c)
        /\ LET g == calls[c].before
               j == FirstInvalidSlot(g)
           IN  /\ j % 2 = 0
               /\ SlotAt(g, j - 1) # None
               /\ calls[c].after # g
               /\ \E k \in (j + 1)..(2 * Len(g)) :
                     SlotAt(g, k) # None /\ k \notin InvalidSlots(g)

\* main is past a load that succeeded; main stopped at the load
LoadSucceeded ==
    /\ mode = "main"
    /\ pc \in {"new", "ready", "invert", "label", "stats"} \/ (pc = "done" /\ calls # << >>)
LoadFailed == mode = "main" /\ pc = "done" /\ calls = << >>

\* the file has a count line that parses, for the count K
DeclaredCount == file[1][1]
HasCount == Len(file) >= 1 /\ Len(file[1]) = 1 /\ DeclaredCount >= 0

\* C19: in main's pipeline no function returns EmptyGraph. A load that
\* succeeds gives the synthetic root (left and right None) followed by the
\* vertices of the K data rows in file order, K the declared count, so that
\* Graph::new gives K + 1 >= 1 vertices, for K = 0 too; a file whose number of
\* data rows is not K ends the run at the load, before any graph is built
\* or analysed.
C19_NoEmptyGraphInPipeline ==
    mode = "main" =>
        /\ err # EmptyGraph
        /\ \A c \in 1..Len(calls) : calls[c].res # EmptyGraph /\ Len(calls[c].before) >= 1
        /\ LoadSucceeded =>
              /\ HasCount
              /\ Len(file) - 1 = DeclaredCount
              /\ Len(vertices) = DeclaredCount + 1
              /\ vertices[1].left = None
              /\ vertices[1].right = None
              /\ \A p \in 1..DeclaredCount :
                    vertices[p + 1] = convert_maybe_string_to_node(p, file[p + 1]).val
              /\ pc # "new" => Len(graph) = DeclaredCount + 1
        /\ (pc # "load" /\ HasCount /\ Len(file) - 1 # DeclaredCount) =>
              /\ LoadFailed
              /\ err # Ok
              /\ vertices = << >>
              /\ graph = << >>

\* the file declares no vertices and has no data rows: the graph of the root
\* alone was analysed
C19_Witness ==
    /\ LoadSucceeded
    /\ DeclaredCount = 0
    /\ Len(graph) = 1
    /\ Len(calls) = 1
    /\ calls[1].op = "walk_and_analyze"
    /\ calls[1].res = Ok

\* the path lengths of the queue do not decrease from front to back, and the
\* last is at most one above the first
TwoLevels(q) ==
    /\ \A k \in 1..(Len(q) - 1) : q[k][1] <= q[k + 1][1]
    /\ q # << >> => q[Len(q)][1] <= q[1][1] + 1

\* C20: at every state of find_root_depth the queue's path lengths are
\* non-decreasing from front to back and span at most two adjacent levels;
\* and, in a run that started with the labels of Graph::new, no path length
\* still in the queue is below the root_depth of a visited vertex, so that path
\* lengths are dequeued in non-decreasing order and the first dequeue of a
\* vertex has its smallest path length.
C20_QueueLevels ==
    pc = "label" =>
        /\ TwoLevels(queue)
        /\ NewLabels(entry) =>
              \A v \in 1..Len(graph), k \in 1..Len(queue) :
                  graph[v].visited => graph[v].root_depth <= queue[k][1]

\* the queue holds entries of two levels, the front one below the root's, and
\* an entry for a vertex already visited at a smaller depth
C20_Witness ==
    /\ pc = "label"
    /\ NewLabels(entry)
    /\ Len(queue) >= 2
    /\ queue[1][1] >= 1
    /\ queue[Len(queue)][1] = queue[1][1] + 1
    /\ \E k \in 1..Len(queue) :
          /\ queue[k][2] \in 1..Len(graph)
          /\ graph[queue[k][2]].visited
          /\ graph[queue[k][2]].root_depth < queue[k][1]

====
